---- MODULE Spec2Model ----
(***************************************************************************)
(* Model of the omni-scroll behavior (behavior_omni_scroll.c): the         *)
(* per-device data block, the binding_pressed handler that classifies one  *)
(* motion sample, the binding_released handler that resets the block, and  *)
(* the device instantiation that fills the configuration.                  *)
(*                                                                         *)
(* The timestamp of a raised event (k_uptime_get) is not modelled.         *)
(***************************************************************************)
EXTENDS Integers, Sequences, FiniteSets

VARIABLES
    config,         \* struct behavior_omni_scroll_config (immutable)
    accumulated_x,  \* data->accumulated_x
    accumulated_y,  \* data->accumulated_y
    last_direction, \* data->last_direction  0: none, 1: vertical, 2: horizontal
    sample_count,   \* data->sample_count
    history_x,      \* data->history_x[5]
    history_y,      \* data->history_y[5]
    history_idx,    \* data->history_idx
    raised,         \* events handed to ZMK_EVENT_RAISE by the latest handler call
    call,           \* history variable: inputs and locals of the latest handler call
    samples,        \* history variable: raw deltas of the pressed calls since the
                    \* last reset, newest last, the latest WindowLen of them
    calls           \* history variable: number of pressed calls since the last reset

vars == <<config, accumulated_x, accumulated_y, last_direction, sample_count,
          history_x, history_y, history_idx, raised, call, samples, calls>>

data == <<accumulated_x, accumulated_y, last_direction, sample_count,
          history_x, history_y, history_idx>>

-----------------------------------------------------------------------------
(* Bounds of the exploration *)

\* pressed calls explored between two resets
MaxCalls == 6

\* raw (dx, dy) deltas delivered by the sensor
Samples == { <<0, 10>>, <<10, 0>>, <<0, -10>>, <<0, 0>>, <<-7, 10>>, <<10, -7>> }

\* the deltas explored with the long smoothing windows
CoarseSamples == { <<0, 10>>, <<10, 0>>, <<0, -10>>, <<-7, 10>> }

\* devicetree property values explored: every combination of these for the
\* smoothing windows in RichWindows, the plain tuning (threshold 5, both biases
\* x1.0) for the other windows
Thresholds == {0, 5}
VerticalBiases == {-10, 10, 15}
HorizontalBiases == {-10, 10, 15}
RichWindows == {1, 2}
ShortWindows == {1, 2, 3}
PlainTuning == [threshold |-> 5, vertical_bias |-> 10, horizontal_bias |-> 10]

-----------------------------------------------------------------------------
(* Program constants *)

HistorySize == 5
DIR_NONE == 0
DIR_VERTICAL == 1
DIR_HORIZONTAL == 2

-----------------------------------------------------------------------------
(* C arithmetic *)

\* ABS(x)
ABS(x) == IF x < 0 THEN -x ELSE x

\* C integer division with a positive divisor: truncation toward zero
Div(a, b) == IF a < 0 THEN -((-a) \div b) ELSE a \div b

\* (int16_t) of a value in 0..65535
Int16(u) == IF u >= 32768 THEN u - 65536 ELSE u

\* binding->param1 is a 32-bit word, held here as its two 16-bit halves
\* [lo, hi] (the word itself does not fit TLC's 32-bit integers)
\* delta_x = (int16_t)(param1 & 0xFFFF)
DeltaX(param1) == Int16(param1.lo % 65536)

\* delta_y = (int16_t)((param1 >> 16) & 0xFFFF)
DeltaY(param1) == Int16(param1.hi % 65536)

\* binding->param1 values that carry the given deltas
Params(deltas) == { [lo |-> s[1] % 65536, hi |-> s[2] % 65536] : s \in deltas }

-----------------------------------------------------------------------------
(* Steps of omni_scroll_binding_pressed *)

RECURSIVE SumTo(_, _)
\* the loop  for (i = 0; i < n; i++) s += h[i]
SumTo(h, n) == IF n <= 0 THEN 0 ELSE SumTo(h, n - 1) + h[n - 1]

\* smooth = (sum of history[0 .. smoothing-1]) / smoothing
Smooth(h, smoothing) == Div(SumTo(h, smoothing), smoothing)

\* faulty variant: the index wraps one slot late
NextIdx_WrapsLate(idx, smoothing) == (idx + 1) % (smoothing + 1)

\* faulty variant: the index wraps at the capacity of the arrays
NextIdx_WrapAtCapacity(idx, smoothing) == (idx + 1) % HistorySize

\* history_idx = (history_idx + 1) % smoothing
NextIdx(idx, smoothing) == (idx + 1) % smoothing

\* magnitude = ABS(smooth_x) + ABS(smooth_y)
Magnitude(sx, sy) == ABS(sx) + ABS(sy)

\* faulty variant: the gate is missing
Gated_Never(magnitude, threshold) == FALSE

\* faulty variant: the gate comparison reversed
Gated_Reversed(magnitude, threshold) == magnitude > threshold

\* if (magnitude < config->threshold) return 0;
Gated(magnitude, threshold) == magnitude < threshold

\* abs = (abs * bias) / 10; the product is negative when the bias is
Weighted(a, bias) == Div(a * bias, 10)

\* faulty variant: a tie goes to the vertical branch
VerticalBranch_OrEqual(abs_y, abs_x) == abs_y >= abs_x

\* if (abs_y > abs_x)  -- vertical branch, else horizontal branch
VerticalBranch(abs_y, abs_x) == abs_y > abs_x

\* faulty variant: the hysteresis margin is missing
SuppressVertical_NoMargin(dir, abs_y, abs_x) == dir = DIR_HORIZONTAL /\ abs_y < abs_x

\* vertical branch: last_direction == 2 && abs_y < abs_x * 2  -> return 0
SuppressVertical(dir, abs_y, abs_x) == dir = DIR_HORIZONTAL /\ abs_y < abs_x * 2

\* faulty variant: the hysteresis margin is missing
SuppressHorizontal_NoMargin(dir, abs_x, abs_y) == dir = DIR_VERTICAL /\ abs_x < abs_y

\* faulty variant: the hysteresis comparison reversed
SuppressHorizontal_Reversed(dir, abs_x, abs_y) ==
    dir = DIR_VERTICAL /\ abs_x >= abs_y * 2

\* horizontal branch: last_direction == 1 && abs_x < abs_y * 2  -> return 0
SuppressHorizontal(dir, abs_x, abs_y) == dir = DIR_VERTICAL /\ abs_x < abs_y * 2

\* faulty variant: the vertical sign mapping reversed
VerticalEvent_Flipped(smooth_y) == [v |-> IF smooth_y > 0 THEN 1 ELSE -1, h |-> 0]

\* the event filled in by the vertical branch
VerticalEvent(smooth_y) == [v |-> IF smooth_y > 0 THEN -1 ELSE 1, h |-> 0]

\* faulty variant: the horizontal branch also sets v
HorizontalEvent_BothAxes(smooth_x) ==
    [v |-> IF smooth_x > 0 THEN 1 ELSE -1, h |-> IF smooth_x > 0 THEN 1 ELSE -1]

\* the event filled in by the horizontal branch
HorizontalEvent(smooth_x) == [v |-> 0, h |-> IF smooth_x > 0 THEN 1 ELSE -1]

\* scroll_ev = new_...(); if (scroll_ev) { ...; ZMK_EVENT_RAISE(scroll_ev); }
Raise(alloc, ev) == IF alloc THEN <<ev>> ELSE <<>>

\* the zeroed history arrays
ZeroHistory == [i \in 0..(HistorySize - 1) |-> 0]

\* number of raw deltas kept in samples: the smoothing window, and at least
\* the latest two
WindowLen(smoothing) ==
    IF smoothing < 2 THEN 2 ELSE IF smoothing > HistorySize THEN HistorySize ELSE smoothing

\* newest-last window of at most n raw deltas
Window(seq, n) ==
    IF Len(seq) <= n THEN seq ELSE SubSeq(seq, Len(seq) - n + 1, Len(seq))

NoCall == [op |-> "init", delta_x |-> 0, delta_y |-> 0, smooth_x |-> 0, smooth_y |-> 0,
           magnitude |-> 0, abs_x |-> 0, abs_y |-> 0, pre_direction |-> DIR_NONE,
           path |-> "none", alloc_failed |-> FALSE, after_release |-> FALSE]

-----------------------------------------------------------------------------
(* Device instantiation and initialization *)

\* OMNI_SCROLL_INST: the configuration is copied from the devicetree properties
ConfigOf(threshold, vertical_bias, horizontal_bias, smoothing, diagonal_threshold) ==
    [threshold |-> threshold, vertical_bias |-> vertical_bias,
     horizontal_bias |-> horizontal_bias, smoothing |-> smoothing,
     diagonal_threshold |-> diagonal_threshold]

\* behavior_omni_scroll_init
InitData ==
    /\ accumulated_x = 0
    /\ accumulated_y = 0
    /\ last_direction = 0
    /\ sample_count = 0
    /\ history_idx = 0
    /\ history_x = ZeroHistory
    /\ history_y = ZeroHistory

\* the devicetree instances explored, for the given values of smoothing
Instances(smoothings) ==
    { ConfigOf(t, vb, hb, s, 0) : t \in Thresholds, vb \in VerticalBiases,
                                  hb \in HorizontalBiases,
                                  s \in smoothings \cap RichWindows }
    \cup { ConfigOf(PlainTuning.threshold, PlainTuning.vertical_bias,
                    PlainTuning.horizontal_bias, s, 0) : s \in smoothings }

InitWith(smoothings) ==
    /\ config \in Instances(smoothings)
    /\ InitData
    /\ raised = <<>>
    /\ call = NoCall
    /\ samples = <<>>
    /\ calls = 0

\* devicetree instances with a short smoothing window
Init == InitWith(ShortWindows)

-----------------------------------------------------------------------------
(* omni_scroll_binding_pressed, for 1 <= config.smoothing <= 5 *)

\* control flow after the smoothing: which return or emission the call reaches
Path(dir, magnitude, threshold, abs_y, abs_x) ==
    IF Gated(magnitude, threshold) THEN "gated"
    ELSE IF VerticalBranch(abs_y, abs_x)
         THEN IF SuppressVertical(dir, abs_y, abs_x) THEN "suppressed_v" ELSE "vertical"
         ELSE IF SuppressHorizontal(dir, abs_x, abs_y) THEN "suppressed_h"
              ELSE "horizontal"

\* faulty variant: a gated call clears the lock
DirectionAfter_Decay(path, dir) ==
    CASE path = "vertical" -> DIR_VERTICAL
      [] path = "horizontal" -> DIR_HORIZONTAL
      [] path = "gated" -> DIR_NONE
      [] OTHER -> dir

\* data->last_direction = 1 / = 2 on the emitting paths; the early returns
\* leave it alone
DirectionAfter(path, dir) ==
    CASE path = "vertical" -> DIR_VERTICAL
      [] path = "horizontal" -> DIR_HORIZONTAL
      [] OTHER -> dir

\* accumulated += delta at the top; = 0 at the bottom, which the early returns
\* do not reach
AccumulatedAfter(path, accumulated, delta) ==
    IF path \in {"vertical", "horizontal"} THEN 0 ELSE accumulated + delta

\* the events the call hands to ZMK_EVENT_RAISE
RaisedAfter(path, alloc, smooth_x, smooth_y) ==
    CASE path = "vertical" -> Raise(alloc, VerticalEvent(smooth_y))
      [] path = "horizontal" -> Raise(alloc, HorizontalEvent(smooth_x))
      [] OTHER -> <<>>

Pressed(param1, alloc) ==
    /\ calls < MaxCalls
    /\ config.smoothing \in 1..HistorySize
    /\ LET delta_x == DeltaX(param1)
           delta_y == DeltaY(param1)
           hx == [history_x EXCEPT ![history_idx] = delta_x]
           hy == [history_y EXCEPT ![history_idx] = delta_y]
           smooth_x == Smooth(hx, config.smoothing)
           smooth_y == Smooth(hy, config.smoothing)
           magnitude == Magnitude(smooth_x, smooth_y)
           abs_y == Weighted(ABS(smooth_y), config.vertical_bias)
           abs_x == Weighted(ABS(smooth_x), config.horizontal_bias)
           path == Path(last_direction, magnitude, config.threshold, abs_y, abs_x)
       IN
       /\ accumulated_x' = AccumulatedAfter(path, accumulated_x, delta_x)
       /\ accumulated_y' = AccumulatedAfter(path, accumulated_y, delta_y)
       /\ history_x' = hx
       /\ history_y' = hy
       /\ history_idx' = NextIdx(history_idx, config.smoothing)
       /\ last_direction' = DirectionAfter(path, last_direction)
       /\ raised' = RaisedAfter(path, alloc, smooth_x, smooth_y)
       /\ call' = [op |-> "pressed", delta_x |-> delta_x, delta_y |-> delta_y,
                   smooth_x |-> smooth_x, smooth_y |-> smooth_y,
                   magnitude |-> magnitude, abs_x |-> abs_x, abs_y |-> abs_y,
                   pre_direction |-> last_direction, path |-> path,
                   alloc_failed |-> (path \in {"vertical", "horizontal"} /\ ~alloc),
                   after_release |-> call.after_release]
       /\ samples' = Window(Append(samples, <<delta_x, delta_y>>),
                            WindowLen(config.smoothing))
       /\ calls' = calls + 1
       /\ UNCHANGED <<config, sample_count>>

OnSample == \E param1 \in Params(Samples), alloc \in BOOLEAN : Pressed(param1, alloc)

OnSampleCoarse ==
    \E param1 \in Params(CoarseSamples), alloc \in BOOLEAN : Pressed(param1, alloc)

-----------------------------------------------------------------------------
(* omni_scroll_binding_released *)

\* faulty variant: the release keeps the direction lock
ResetData_KeepsLock ==
    /\ UNCHANGED last_direction
    /\ accumulated_x' = 0
    /\ accumulated_y' = 0
    /\ sample_count' = 0
    /\ history_x' = ZeroHistory
    /\ history_y' = ZeroHistory
    /\ history_idx' = 0

\* faulty variant: the release does not clear the history arrays
ResetData_KeepsHistory ==
    /\ last_direction' = 0
    /\ accumulated_x' = 0
    /\ accumulated_y' = 0
    /\ sample_count' = 0
    /\ UNCHANGED <<history_x, history_y>>
    /\ history_idx' = 0

\* faulty variant: the release leaves history_idx where it was
ResetData_KeepsIndex ==
    /\ last_direction' = 0
    /\ accumulated_x' = 0
    /\ accumulated_y' = 0
    /\ sample_count' = 0
    /\ history_x' = ZeroHistory
    /\ history_y' = ZeroHistory
    /\ UNCHANGED history_idx

ResetData ==
    /\ last_direction' = 0
    /\ accumulated_x' = 0
    /\ accumulated_y' = 0
    /\ sample_count' = 0
    /\ history_x' = ZeroHistory
    /\ history_y' = ZeroHistory
    /\ history_idx' = 0

Released ==
    /\ ResetData
    /\ raised' = <<>>
    /\ call' = [NoCall EXCEPT !.op = "released", !.pre_direction = last_direction,
                              !.after_release = (call.after_release \/ calls > 0)]
    /\ samples' = <<>>
    /\ calls' = 0
    /\ UNCHANGED config

Next == OnSample \/ Released

Spec == Init /\ [][Next]_vars

\* every documented smoothing window, under the plain tuning
InitWindows ==
    InitWith(1..HistorySize) /\ config.threshold = PlainTuning.threshold
        /\ config.vertical_bias = PlainTuning.vertical_bias
        /\ config.horizontal_bias = PlainTuning.horizontal_bias

NextWindows == OnSampleCoarse \/ Released

SpecWindows == InitWindows /\ [][NextWindows]_vars

-----------------------------------------------------------------------------
(* Devicetree instances whose smoothing is outside 1..5.  Neither            *)
(* OMNI_SCROLL_INST nor behavior_omni_scroll_init looks at the value.  With  *)
(* smoothing = 0 the pressed handler computes  % 0  and  / 0 ; with          *)
(* smoothing > 5 its loop reads history_x[5], past the array.  Both are      *)
(* undefined: the call may trap and never return, or return with any data.   *)

\* values an undefined read or division may leave in the data block
Garbage == {-1, HistorySize}

PressedUndefined(param1) ==
    /\ calls < MaxCalls
    /\ config.smoothing \notin 1..HistorySize
    /\ call.path # "trap"
    /\ \E trap \in BOOLEAN, g \in Garbage :
          /\ accumulated_x' = g
          /\ accumulated_y' = g
          /\ history_x' = [i \in DOMAIN history_x |-> g]
          /\ history_y' = [i \in DOMAIN history_y |-> g]
          /\ history_idx' = g
          /\ last_direction' = g
          /\ raised' = <<>>
          /\ call' = [NoCall EXCEPT !.op = "pressed", !.delta_x = DeltaX(param1),
                                    !.delta_y = DeltaY(param1),
                                    !.pre_direction = last_direction,
                                    !.after_release = call.after_release,
                                    !.path = IF trap THEN "trap" ELSE "undefined"]
          /\ samples' = Window(Append(samples, <<DeltaX(param1), DeltaY(param1)>>),
                               WindowLen(config.smoothing))
          /\ calls' = calls + 1
          /\ UNCHANGED <<config, sample_count>>

OnSampleUndefined == \E param1 \in Params(CoarseSamples) : PressedUndefined(param1)

ReleasedAnyConfig == call.path # "trap" /\ Released

\* devicetree instances with smoothing below, inside and above the documented range
InitAnyConfig == InitWith({0, 1, HistorySize + 1})

NextAnyConfig == OnSampleCoarse \/ OnSampleUndefined \/ ReleasedAnyConfig

SpecAnyConfig == InitAnyConfig /\ [][NextAnyConfig]_vars

-----------------------------------------------------------------------------
(* Properties *)

\* the latest handler call was a pressed call (on_sample)
IsPressed == call.op = "pressed"

\* the pressed call got past  if (magnitude < threshold) return 0;
PassedGate == IsPressed /\ call.path # "gated"

\* the events with exactly one axis set
VerticalEvents == { [v |-> -1, h |-> 0], [v |-> 1, h |-> 0] }
HorizontalEvents == { [v |-> 0, h |-> -1], [v |-> 0, h |-> 1] }

\* C1 as stated: from a vertical lock, a sample with weighted horizontal below
\* twice weighted vertical raises nothing and keeps the lock; a sample with
\* weighted horizontal above twice weighted vertical sets the lock to Horizontal.
C1_AsStated ==
    (IsPressed /\ call.pre_direction = DIR_VERTICAL) =>
        /\ call.abs_x < 2 * call.abs_y =>
              (raised = <<>> /\ last_direction = DIR_VERTICAL)
        /\ call.abs_x > 2 * call.abs_y => last_direction = DIR_HORIZONTAL

\* C1 amended: from a vertical lock, a sample whose weighted horizontal is at
\* least its weighted vertical and below twice it raises nothing and keeps the
\* lock; a sample that passes the magnitude gate with weighted horizontal at
\* least its weighted vertical and above twice it sets the lock to Horizontal.
C1_VerticalLockHysteresis ==
    (IsPressed /\ call.pre_direction = DIR_VERTICAL) =>
        /\ (call.abs_x >= call.abs_y /\ call.abs_x < 2 * call.abs_y) =>
              (raised = <<>> /\ last_direction = DIR_VERTICAL)
        /\ (PassedGate /\ call.abs_x >= call.abs_y /\ call.abs_x > 2 * call.abs_y) =>
              last_direction = DIR_HORIZONTAL

\* a gate-passing horizontal candidate under a vertical lock that is held back
C1_Witness_Suppressed ==
    /\ IsPressed /\ call.pre_direction = DIR_VERTICAL /\ call.path = "suppressed_h"
    /\ call.abs_x > call.abs_y

\* C2: a pressed call whose smoothed L1 magnitude is strictly below the
\* threshold raises no event and leaves last_direction as it was.
C2_Gating ==
    (IsPressed /\ ABS(call.smooth_x) + ABS(call.smooth_y) < config.threshold) =>
        (raised = <<>> /\ last_direction = call.pre_direction)

\* a nonzero smoothed motion below the threshold arriving under a lock
C2_Witness ==
    /\ IsPressed
    /\ ABS(call.smooth_x) + ABS(call.smooth_y) < config.threshold
    /\ ABS(call.smooth_x) + ABS(call.smooth_y) > 0
    /\ call.pre_direction # DIR_NONE

\* the configuration of the concrete scenario
ScenarioConfig == ConfigOf(5, 10, 10, 1, 0)

\* the scenario's two calls: (0, 10) on the zeroed state, then (10, 0)
ScenarioFirst ==
    config = ScenarioConfig /\ IsPressed /\ calls = 1 /\ samples = << <<0, 10>> >>
ScenarioSecond ==
    config = ScenarioConfig /\ IsPressed /\ calls = 2
        /\ samples = << <<0, 10>>, <<10, 0>> >>

\* C3 as stated: the first call raises {v: -1, h: 0}, the second raises nothing.
\* (Calls whose event object could not be allocated are left out.)
C3_AsStated ==
    /\ (ScenarioFirst /\ ~call.alloc_failed) => raised = << [v |-> -1, h |-> 0] >>
    /\ (ScenarioSecond /\ ~call.alloc_failed) => raised = <<>>

\* C3 amended: the first call sets the lock to Vertical and raises {v: -1, h: 0};
\* the second call sets the lock to Horizontal and raises {v: 0, h: 1}; a call
\* raises nothing when its event object cannot be allocated.
C3_Scenario ==
    /\ ScenarioFirst =>
          /\ last_direction = DIR_VERTICAL
          /\ raised = IF call.alloc_failed THEN <<>> ELSE << [v |-> -1, h |-> 0] >>
    /\ ScenarioSecond =>
          /\ last_direction = DIR_HORIZONTAL
          /\ raised = IF call.alloc_failed THEN <<>> ELSE << [v |-> 0, h |-> 1] >>

\* the second call of the scenario, arriving under the vertical lock
C3_Witness ==
    ScenarioSecond /\ call.pre_direction = DIR_VERTICAL /\ ~call.alloc_failed

\* a pressed call that passed the gate with equal weighted magnitudes
Tie == PassedGate /\ call.abs_x = call.abs_y

\* the call was held back by the vertical-lock hysteresis
HeldByVerticalLock ==
    /\ raised = <<>>
    /\ call.pre_direction = DIR_VERTICAL
    /\ last_direction = DIR_VERTICAL
    /\ call.abs_x < 2 * call.abs_y

SignMapping ==
    (IsPressed /\ raised # <<>>) =>
        /\ last_direction = DIR_VERTICAL =>
              raised[1] = [v |-> IF call.smooth_y > 0 THEN -1 ELSE 1, h |-> 0]
        /\ last_direction = DIR_HORIZONTAL =>
              raised[1] = [v |-> 0, h |-> IF call.smooth_x > 0 THEN 1 ELSE -1]
        /\ last_direction \in {DIR_VERTICAL, DIR_HORIZONTAL}

\* the first call on a zeroed state with smoothing = 1 carries (0, +K), K clears
\* the threshold and K * vertical_bias / 10 is positive
FirstPureVertical ==
    /\ IsPressed /\ calls = 1 /\ config.smoothing = 1
    /\ call.delta_x = 0 /\ call.delta_y > 0
    /\ call.delta_y >= config.threshold
    /\ Div(call.delta_y * config.vertical_bias, 10) > 0

RECURSIVE SumSeq(_, _)
\* sum of component k of the pairs in seq
SumSeq(seq, k) == IF seq = <<>> THEN 0 ELSE seq[1][k] + SumSeq(Tail(seq), k)

\* a / w rounded toward zero, for w > 0: the q with a = q * w + r, |r| < w and
\* r of the sign of a
TruncatedQuotient(a, w) ==
    CHOOSE q \in (-ABS(a))..ABS(a) :
        LET r == a - q * w IN
        /\ ABS(r) < w
        /\ (r = 0 \/ (r > 0) = (a > 0))

\* C6: once at least smoothing calls were made since the last reset, the
\* smoothed values of a pressed call are the sums of exactly the latest
\* smoothing raw deltas divided by smoothing, rounded toward zero.
C6_Smoothing ==
    (IsPressed /\ calls >= config.smoothing) =>
        LET latest == Window(samples, config.smoothing) IN
        /\ Len(latest) = config.smoothing
        /\ call.smooth_x = TruncatedQuotient(SumSeq(latest, 1), config.smoothing)
        /\ call.smooth_y = TruncatedQuotient(SumSeq(latest, 2), config.smoothing)

\* the ring buffer of the longest window has wrapped, and the average of the
\* latest deltas is negative and inexact
C6_Witness ==
    /\ IsPressed /\ config.smoothing = HistorySize /\ calls > HistorySize
    /\ call.smooth_x < 0
    /\ SumSeq(samples, 1) % HistorySize # 0

\* C7: after a release every field of the data block is zero, which is the
\* block behavior_omni_scroll_init leaves; a release that follows a release
\* leaves the block as it was.
C7_Reset ==
    [][ /\ call'.op = "released" => InitData'
        /\ (call.op = "released" /\ call'.op = "released") => data' = data ]_vars

\* a release that found a lock, a moved ring index and stored deltas
C7_Witness ==
    /\ call.op = "released" /\ call.pre_direction # DIR_NONE
    /\ history_idx = 0 /\ history_x = ZeroHistory /\ history_y = ZeroHistory

\* C8: a smoothing outside 1..5 is rejected or clamped when the instance is
\* built, so no pressed call runs with smoothing = 0 or smoothing > 5.
C8_SmoothingValidated == IsPressed => config.smoothing \in 1..HistorySize

\* C9: last_direction starts at None; a pressed call never takes it from
\* Vertical or Horizontal back to None (only a release does).
C9_NoDecay ==
    /\ last_direction = DIR_NONE
    /\ [][ (last_direction # DIR_NONE /\ last_direction' = DIR_NONE) =>
              (call'.op = "released") ]_vars

\* a gated call and a held-back call that found a lock and kept it
C9_Witness ==
    /\ IsPressed /\ call.path \in {"gated", "suppressed_h", "suppressed_v"}
    /\ call.pre_direction # DIR_NONE
    /\ last_direction = call.pre_direction

\* C10: a pressed call raises at most one event, and a raised event has v and
\* h in {-1, 0, 1} with exactly one of them nonzero.
C10_SingleAxis ==
    IsPressed =>
        /\ Len(raised) <= 1
        /\ \A i \in 1..Len(raised) :
              /\ raised[i].v \in {-1, 0, 1}
              /\ raised[i].h \in {-1, 0, 1}
              /\ (raised[i].v = 0) # (raised[i].h = 0)

\* a horizontal event raised for a smoothed motion with a nonzero vertical part
C10_Witness ==
    IsPressed /\ raised # <<>> /\ raised[1].h # 0 /\ call.smooth_y # 0

\* a gate-passing vertical candidate that arrived under a horizontal lock
VerticalUnderHorizontalLock ==
    PassedGate /\ call.pre_direction = DIR_HORIZONTAL /\ call.abs_y > call.abs_x

AxisOf(ev) == IF ev.v # 0 THEN DIR_VERTICAL ELSE DIR_HORIZONTAL

\* C12: last_direction is None while no event was raised since the last reset
\* or initialization, and otherwise the axis of the most recently raised event,
\* also across calls whose event object cannot be allocated.  Stated call by
\* call: it is None after initialization and after a release, a pressed call
\* that raises nothing leaves it as it was, and a pressed call that raises an
\* event sets it to the axis of that event.
C12_LockTracksEvents ==
    /\ call.op \in {"init", "released"} => last_direction = DIR_NONE
    /\ (IsPressed /\ raised = <<>>) => last_direction = call.pre_direction
    /\ (IsPressed /\ raised # <<>>) => last_direction = AxisOf(raised[1])

\* C13: accumulated_x and accumulated_y are the sums of the raw deltas received
\* since the most recent raised event or reset.  Stated call by call: a release
\* zeroes them, a pressed call that raises nothing adds its deltas, and a
\* pressed call that raises an event leaves them at 0.
C13_AccumulatorTracksEvents ==
    [][ /\ call'.op = "released" => (accumulated_x' = 0 /\ accumulated_y' = 0)
        /\ (call'.op = "pressed" /\ raised' = <<>>) =>
              /\ accumulated_x' = accumulated_x + call'.delta_x
              /\ accumulated_y' = accumulated_y + call'.delta_y
        /\ (call'.op = "pressed" /\ raised' # <<>>) =>
              (accumulated_x' = 0 /\ accumulated_y' = 0) ]_vars

\* C14: sample_count is the number of pressed calls since the last reset or
\* initialization.
C14_SampleCount == sample_count = calls

\* C15: for the k-th pressed call after a reset or initialization, with
\* 1 <= k < smoothing, the smoothed values are the sums of the k raw deltas
\* received since the reset divided by smoothing, rounded toward zero.
C15_WarmUp ==
    (IsPressed /\ calls >= 1 /\ calls < config.smoothing) =>
        /\ Len(samples) = calls
        /\ call.smooth_x = TruncatedQuotient(SumSeq(samples, 1), config.smoothing)
        /\ call.smooth_y = TruncatedQuotient(SumSeq(samples, 2), config.smoothing)

\* a warm-up call of the longest window whose partial average is negative and
\* inexact
C15_Witness ==
    /\ IsPressed /\ config.smoothing = HistorySize /\ calls = 3
    /\ call.smooth_x < 0
    /\ SumSeq(samples, 1) % HistorySize # 0

\* C16: with smoothing in 1..5, history_idx is in 0..smoothing-1 and equals the
\* number of pressed calls since the last reset modulo smoothing, and every
\* history slot at an index >= smoothing is 0.
C16_RingIndex ==
    config.smoothing \in 1..HistorySize =>
        /\ history_idx >= 0 /\ history_idx < config.smoothing
        /\ history_idx = calls % config.smoothing
        /\ \A i \in config.smoothing..(HistorySize - 1) :
              history_x[i] = 0 /\ history_y[i] = 0

\* the index of a window shorter than the arrays has wrapped and moved on
C16_Witness ==
    /\ IsPressed /\ config.smoothing = 3 /\ calls = 5 /\ history_idx = 2
    /\ history_x[0] # 0 /\ history_y[1] # 0

\* both biases of the configuration are non-negative
NonNegativeBiases == config.vertical_bias >= 0 /\ config.horizontal_bias >= 0

\* C17 as stated: with non-negative biases, a horizontal event is raised only
\* when smooth_x is nonzero and a vertical event only when smooth_y is nonzero.
C17_AsStated ==
    (NonNegativeBiases /\ IsPressed /\ raised # <<>>) =>
        /\ raised[1] \in HorizontalEvents => call.smooth_x # 0
        /\ raised[1] \in VerticalEvents => call.smooth_y # 0

\* C17 amended: with non-negative biases, a vertical event is raised only when
\* smooth_y is nonzero, a horizontal event only when smooth_x is nonzero or the
\* weighted vertical magnitude is 0, and a call whose smoothed motion is zero
\* on both axes raises nothing when the threshold is positive.
C17_EventsFollowMotion ==
    (NonNegativeBiases /\ IsPressed) =>
        /\ (raised # <<>> /\ raised[1] \in VerticalEvents) => call.smooth_y # 0
        /\ (raised # <<>> /\ raised[1] \in HorizontalEvents) =>
              (call.smooth_x # 0 \/ call.abs_y = 0)
        /\ (config.threshold > 0 /\ call.smooth_x = 0 /\ call.smooth_y = 0) =>
              raised = <<>>

\* a horizontal event raised for no horizontal motion, on a tie at zero
C17_Witness ==
    /\ NonNegativeBiases /\ IsPressed
    /\ raised = << [v |-> 0, h |-> -1] >>
    /\ call.smooth_x = 0 /\ call.abs_y = 0

\* the data block as a record, and the block a release leaves behind
DataRecord ==
    [accumulated_x |-> accumulated_x, accumulated_y |-> accumulated_y,
     last_direction |-> last_direction, sample_count |-> sample_count,
     history_x |-> history_x, history_y |-> history_y, history_idx |-> history_idx]

ZeroData ==
    [accumulated_x |-> 0, accumulated_y |-> 0, last_direction |-> DIR_NONE,
     sample_count |-> 0, history_x |-> ZeroHistory, history_y |-> ZeroHistory,
     history_idx |-> 0]

\* one pressed call as a function of the configuration, the data block d and
\* the sample s alone; event is what the call raises when allocation succeeds
StepData(cfg, d, s) ==
    LET hx == [d.history_x EXCEPT ![d.history_idx] = s[1]]
        hy == [d.history_y EXCEPT ![d.history_idx] = s[2]]
        smooth_x == Smooth(hx, cfg.smoothing)
        smooth_y == Smooth(hy, cfg.smoothing)
        path == Path(d.last_direction, Magnitude(smooth_x, smooth_y), cfg.threshold,
                     Weighted(ABS(smooth_y), cfg.vertical_bias),
                     Weighted(ABS(smooth_x), cfg.horizontal_bias))
    IN [data |-> [accumulated_x |-> AccumulatedAfter(path, d.accumulated_x, s[1]),
                  accumulated_y |-> AccumulatedAfter(path, d.accumulated_y, s[2]),
                  last_direction |-> DirectionAfter(path, d.last_direction),
                  sample_count |-> d.sample_count,
                  history_x |-> hx, history_y |-> hy,
                  history_idx |-> NextIdx(d.history_idx, cfg.smoothing)],
        event |-> RaisedAfter(path, TRUE, smooth_x, smooth_y)]

\* the outcome of feeding seq, oldest first, to a freshly released instance
RECURSIVE Replay(_, _)
Replay(cfg, seq) ==
    IF seq = <<>> THEN [data |-> ZeroData, event |-> <<>>]
    ELSE StepData(cfg, Replay(cfg, SubSeq(seq, 1, Len(seq) - 1)).data, seq[Len(seq)])

\* samples holds every sample received since the last release (or since init)
WholeGesture == config.smoothing \in 1..HistorySize /\ calls = Len(samples)

====
